---------------------------- MODULE Spec2Model ----------------------------
(***************************************************************************)
(* Cheque-request application: invoice field extraction (ocr.py),          *)
(* duplicate fingerprints (duplicate.py) and the request store and         *)
(* approval handlers (db.py, app.py).                                      *)
(*                                                                         *)
(* Conventions.  A Python str is a sequence of one-character strings.      *)
(* None is the one-element sequence <<"None">>, which no text equals       *)
(* because every element of a text is a single character.  A confidence    *)
(* is kept in hundredths (0.85 is 85).                                     *)
(*                                                                         *)
(* A local name is bound as The({body : x \in {e}}): the bound x is the     *)
(* value of e, computed once, where a LET would compute e at every use.    *)
(***************************************************************************)
EXTENDS Integers, Sequences, FiniteSets, TLC

None == <<"None">>
EOT == ""
The(S) == CHOOSE r \in S : TRUE

(***************************************************************************)
(* Characters and the regular-expression classes used by ocr.py            *)
(***************************************************************************)
Digit == {"0", "1", "2", "3", "4", "5", "6", "7", "8", "9"}
UpperSeq == <<"A", "B", "C", "D", "E", "F", "G", "H", "I", "J", "K", "L", "M",
              "N", "O", "P", "Q", "R", "S", "T", "U", "V", "W", "X", "Y", "Z">>
LowerSeq == <<"a", "b", "c", "d", "e", "f", "g", "h", "i", "j", "k", "l", "m",
              "n", "o", "p", "q", "r", "s", "t", "u", "v", "w", "x", "y", "z">>
Letter == {UpperSeq[i] : i \in 1..26} \cup {LowerSeq[i] : i \in 1..26}
\* \s and str.split()/str.strip() whitespace
Space == {" ", "\n", "\t"}
\* \w
WordCh == Letter \cup Digit \cup {"_"}

\* str.lower() on one character
LowerOf == [c \in {UpperSeq[i] : i \in 1..26} |-> LowerSeq[CHOOSE i \in 1..26 : UpperSeq[i] = c]]
Lower(c) == IF c \in DOMAIN LowerOf THEN LowerOf[c] ELSE c
LowerStr(t) == [i \in 1..Len(t) |-> Lower(t[i])]

Min(a, b) == IF a <= b THEN a ELSE b
Max(a, b) == IF a >= b THEN a ELSE b
Least(S) == CHOOSE x \in S : \A y \in S : x <= y
Greatest(S) == CHOOSE x \in S : \A y \in S : x >= y

\* the character at position i, EOT outside the text
At(t, i) == IF i >= 1 /\ i <= Len(t) THEN t[i] ELSE EOT
\* last index of the longest run of characters of class S that starts at i
\* (i - 1 when the run is empty): a greedy S*
RunEnd(t, i, S) ==
    IF i < 1 \/ i > Len(t) THEN i - 1
    ELSE CHOOSE j \in (i - 1)..Len(t) :
            /\ At(t, j + 1) \notin S
            /\ \A k \in i..j : t[k] \in S
\* last index of the longest run of characters outside class S from i
RunEndNot(t, i, S) ==
    IF i < 1 \/ i > Len(t) THEN i - 1
    ELSE CHOOSE j \in (i - 1)..Len(t) :
            /\ At(t, j + 1) \in S \cup {EOT}
            /\ \A k \in i..j : t[k] \notin S
\* last index of the line that holds position i: a greedy .*
LineEnd(t, i) == RunEndNot(t, i, {"\n"})
\* the literal lit stands at position i
HasLit(t, i, lit) ==
    /\ i >= 1
    /\ i + Len(lit) - 1 <= Len(t)
    /\ \A k \in 1..Len(lit) : t[i + k - 1] = lit[k]
\* the same under re.IGNORECASE
HasLitI(t, i, lit) ==
    /\ i >= 1
    /\ i + Len(lit) - 1 <= Len(t)
    /\ \A k \in 1..Len(lit) : Lower(t[i + k - 1]) = Lower(lit[k])
\* "lit in t"
Contains(t, lit) == \E i \in 1..Len(t) : HasLit(t, i, lit)
\* "lit in t.lower()"
ContainsI(t, lit) == \E i \in 1..Len(t) : HasLitI(t, i, lit)
\* t[:n]
Take(t, n) == SubSeq(t, 1, Min(n, Len(t)))

\* str.strip()
Strip(t) ==
    IF \A i \in 1..Len(t) : t[i] \in Space THEN <<>>
    ELSE SubSeq(t, Least({i \in 1..Len(t) : t[i] \notin Space}),
                   Greatest({i \in 1..Len(t) : t[i] \notin Space}))
IsNonBlank(line) == \E i \in 1..Len(line) : line[i] \notin Space

\* sep.join(parts), from the k-th part on
RECURSIVE JoinFrom(_, _, _)
JoinFrom(parts, sep, k) ==
    IF k > Len(parts) THEN <<>>
    ELSE IF k = Len(parts) THEN parts[k]
    ELSE parts[k] \o sep \o JoinFrom(parts, sep, k + 1)
Join(parts, sep) == The({JoinFrom(p, sep, 1) : p \in {parts}})

\* str.splitlines() on the line break "\n", from position i on: no empty
\* last line
RECURSIVE LinesFrom(_, _)
LinesFrom(t, i) ==
    IF i > Len(t) THEN <<>>
    ELSE The({<<SubSeq(t, i, e)>> \o LinesFrom(t, e + 2) : e \in {LineEnd(t, i)}})
SplitLines(text) == The({LinesFrom(t, 1) : t \in {text}})

\* str.split(), from position i on: the maximal runs of non-whitespace
RECURSIVE WordsFrom(_, _)
WordsFrom(t, i) ==
    The({IF s > Len(t) THEN <<>>
         ELSE The({<<SubSeq(t, s, e)>> \o WordsFrom(t, e + 1) :
                     e \in {RunEndNot(t, s, Space)}})
         : s \in {RunEnd(t, i, Space) + 1}})
SplitWs(text) == The({WordsFrom(t, 1) : t \in {text}})

\* [l for l in text.splitlines() if l.strip()]
NonBlankLines(text) == SelectSeq(SplitLines(text), IsNonBlank)
\* [l.strip() for l in text.splitlines() if l.strip()]
StrippedLines(text) ==
    The({[i \in 1..Len(lines) |-> Strip(lines[i])] : lines \in {NonBlankLines(text)}})

\* re.sub(r"\s+", " ", text): a blank that follows a blank is dropped, every
\* other blank becomes a space
CollapseWs(text) ==
    The({The({[k \in 1..Len(kept) |-> IF kept[k][1] \in Space THEN " " ELSE kept[k][1]]
              : kept \in {SelectSeq([i \in 1..Len(t) |-> <<t[i], At(t, i - 1)>>],
                                    LAMBDA p : p[1] \notin Space \/ p[2] \notin Space)}})
         : t \in {text}})
_clean_text(text) ==
    The({Strip(c) : c \in {CollapseWs(IF text = None THEN <<>> ELSE text)}})

(***************************************************************************)
(* ocr.py: patterns                                                        *)
(***************************************************************************)
AgentResult(value, confidence, meta) ==
    [value |-> value, confidence |-> confidence, meta |-> meta]

\* the leftmost position of 1..Len(t) at which M holds, 0 when there is none
FirstPos(t, M(_, _)) ==
    The({IF P = {} THEN 0 ELSE Least(P) : P \in {{i \in 1..Len(t) : M(t, i)}}})

\* \.\d{2} at position p
HasCents(t, p) == At(t, p) = "." /\ At(t, p + 1) \in Digit /\ At(t, p + 2) \in Digit

\* (?:,\d{3})* from position p, greedy: the position after the last group
RECURSIVE SkipThousands(_, _)
SkipThousands(t, p) ==
    IF At(t, p) = "," /\ \A k \in (p + 1)..(p + 3) : At(t, k) \in Digit
    THEN SkipThousands(t, p + 4)
    ELSE p

\* MONEY_PAT at position i: the last index of the match, 0 when it fails.
\*   (?<!\d)(\d{1,3}(?:,\d{3})*(?:\.\d{2})|\d+\.\d{2})(?!\d)
\* Whatever follows the leading digits must be "," or ".", so they are the
\* whole digit run; the first alternative needs a run of at most 3.
MoneyEnd(t, i) ==
    IF At(t, i) \notin Digit \/ At(t, i - 1) \in Digit THEN 0
    ELSE The({IF r - i + 1 <= 3 /\ HasCents(t, g) /\ At(t, g + 3) \notin Digit
              THEN g + 2
              ELSE IF HasCents(t, r + 1) /\ At(t, r + 4) \notin Digit
              THEN r + 3
              ELSE 0
              : r \in {RunEnd(t, i, Digit)},
                g \in {SkipThousands(t, RunEnd(t, i, Digit) + 1)}})
MoneyAt(t, i) == MoneyEnd(t, i) # 0

\* MONEY_PAT.findall(t), scanning from position i: the leftmost match from
\* there, then the matches after its end
RECURSIVE MoneyFrom(_, _)
MoneyFrom(t, i) ==
    The({IF S = {} THEN <<>>
         ELSE The({<<SubSeq(t, Least(S), e)>> \o MoneyFrom(t, e + 1)
                   : e \in {MoneyEnd(t, Least(S))}})
         : S \in {{j \in i..Len(t) : MoneyAt(t, j)}}})
MoneyFindAll(text) == The({MoneyFrom(t, 1) : t \in {text}})

\* \b(\d+(?:\.\d+)?)\b at position i: the last index of the match, 0 when it
\* fails.  The digits are the whole run; the fraction is kept when a word
\* boundary follows it and dropped when one follows the integer part.
QtyEnd(t, i) ==
    IF At(t, i) \notin Digit \/ At(t, i - 1) \in WordCh THEN 0
    ELSE The({IF At(t, r + 1) = "." /\ f >= r + 2 /\ At(t, f + 1) \notin WordCh
              THEN f
              ELSE IF At(t, r + 1) \notin WordCh THEN r
              ELSE 0
              : r \in {RunEnd(t, i, Digit)},
                f \in {RunEnd(t, RunEnd(t, i, Digit) + 2, Digit)}})
QtyAt(t, i) == QtyEnd(t, i) # 0

\* HST_PAT at position i:  \b(\d{9})(?:\s*RT\s*0001)?\b  (IGNORECASE)
HstAt(t, i) ==
    /\ At(t, i - 1) \notin WordCh
    /\ \A k \in i..(i + 8) : At(t, k) \in Digit
    /\ \/ At(t, i + 9) \notin WordCh
       \/ \E s1 \in {RunEnd(t, i + 9, Space) + 1} :
             /\ HasLitI(t, s1, <<"R", "T">>)
             /\ \E s2 \in {RunEnd(t, s1 + 2, Space) + 1} :
                   /\ HasLit(t, s2, <<"0", "0", "0", "1">>)
                   /\ At(t, s2 + 4) \notin WordCh

\* DATE_PAT at position i: the last index of the match, 0 when it fails.
\*   (\d{1,2}[/-]\d{1,2}[/-]\d{2,4}|\d{4}[/-]\d{1,2}[/-]\d{1,2})
\* r holds the ends of the three digit runs.
DateSep == {"/", "-"}
DateRuns(t, i) ==
    The({The({<<r1, r2, RunEnd(t, r2 + 2, Digit)>> : r2 \in {RunEnd(t, r1 + 2, Digit)}})
         : r1 \in {RunEnd(t, i, Digit)}})
DateEnd(t, i) ==
    IF At(t, i) \notin Digit THEN 0
    ELSE The({IF /\ At(t, r[1] + 1) \in DateSep
                 /\ r[2] - r[1] - 1 \in 1..2
                 /\ At(t, r[2] + 1) \in DateSep
              THEN IF r[1] - i + 1 \in 1..2 /\ r[3] - r[2] - 1 >= 2
                   THEN Min(r[3], r[2] + 5)
                   ELSE IF r[1] - i + 1 = 4 /\ r[3] - r[2] - 1 >= 1
                   THEN Min(r[3], r[2] + 3)
                   ELSE 0
              ELSE 0
              : r \in {DateRuns(t, i)}})
DateAt(t, i) == DateEnd(t, i) # 0

\* {label}\s*[:$]?\s*(\d[\d,]*\.\d{2}) at position i (IGNORECASE): the first
\* index of the group, 0 when the pattern fails there.
LabelledStart(t, i, label) ==
    IF ~HasLitI(t, i, label) THEN 0
    ELSE The({The({IF At(t, p3) \in Digit
                      /\ HasCents(t, RunEnd(t, p3 + 1, Digit \cup {","}) + 1)
                   THEN p3 ELSE 0
                   : p3 \in {RunEnd(t, IF At(t, p1) \in {":", "$"} THEN p1 + 1 ELSE p1,
                                    Space) + 1}})
              : p1 \in {RunEnd(t, i + Len(label), Space) + 1}})
\* pattern.search(text): the group of the leftmost match, None without one
LabelledAmount(text, label) ==
    The({IF S = {} THEN None
         ELSE The({SubSeq(text, g, RunEnd(text, g + 1, Digit \cup {","}) + 3)
                   : g \in {LabelledStart(text, Least(S), label)}})
         : S \in {{i \in 1..Len(text) : LabelledStart(text, i, label) # 0}}})

(***************************************************************************)
(* ocr.py: field agents                                                    *)
(***************************************************************************)
\* vendor[:\s]+(.+) at position i (IGNORECASE): the first index of the group,
\* 0 when the pattern fails there.  [:\s]+ is greedy and gives back
\* characters until one that is not a line break follows it.
VendorStart(t, i) ==
    IF ~HasLitI(t, i, <<"v", "e", "n", "d", "o", "r">>) THEN 0
    ELSE The({IF K = {} THEN 0 ELSE Greatest(K) + 1
              : K \in {{k \in (i + 6)..RunEnd(t, i + 6, {":"} \cup Space) :
                          At(t, k + 1) \notin {"\n", EOT}}}})
VendorAt(t, i) == VendorStart(t, i) # 0

agent_vendor(text) ==
    The({IF g # 0
         THEN AgentResult(_clean_text(SubSeq(text, g, LineEnd(text, g))), 90,
                          [source |-> "keyword"])
         ELSE IF lines # <<>>
         THEN AgentResult(Take(lines[1], 120), 40, [source |-> "first-line"])
         ELSE AgentResult(None, 0, [source |-> "none"])
         : g \in {VendorStart(text, FirstPos(text, VendorAt))},
           lines \in {StrippedLines(text)}})

agent_hst(text) ==
    The({IF i # 0
         THEN AgentResult(SubSeq(text, i, i + 8) \o <<" ", "R", "T", "0", "0", "0", "1">>,
                          85, [source |-> "regex"])
         ELSE AgentResult(None, 0, [source |-> "none"])
         : i \in {FirstPos(text, HstAt)}})

\* "street" in line.lower() or re.search(r"\d{2,4}\s+", line)
StreetLike(line) ==
    \/ ContainsI(line, <<"s", "t", "r", "e", "e", "t">>)
    \/ \E p \in 1..Len(line) :
          At(line, p) \in Digit /\ At(line, p + 1) \in Digit /\ At(line, p + 2) \in Space

\* max() keeps the first of the candidates, which all have 0.75
agent_address(text) ==
    The({The({IF C # {}
              THEN AgentResult(Join(SubSeq(blocks, Least(C), Min(Least(C) + 3, Len(blocks))),
                                    <<"\n">>),
                               75, [source |-> "street"])
              ELSE IF blocks # <<>>
              THEN AgentResult(Join(Take(blocks, 3), <<"\n">>), 40, [source |-> "top-lines"])
              ELSE AgentResult(None, 0, [source |-> "none"])
              : C \in {{idx \in 1..Len(blocks) : StreetLike(blocks[idx])}}})
         : blocks \in {StrippedLines(text)}})

agent_description(text) ==
    The({The({IF D # {}
              THEN AgentResult(lines[Least(D)], 60, [source |-> "keyword"])
              ELSE IF lines # <<>>
              THEN AgentResult(Take(Join(Take(lines, 2), <<" ">>), 200), 30,
                               [source |-> "snippet"])
              ELSE AgentResult(None, 0, [source |-> "snippet"])
              : D \in {{k \in 1..Len(lines) :
                          ContainsI(lines[k],
                                    <<"d", "e", "s", "c", "r", "i", "p", "t", "i", "o", "n">>)}}})
         : lines \in {StrippedLines(text)}})

\* invoice\s*(no\.?|#)?[:\s]*([\w-]+) at position i (IGNORECASE).  A way
\* through the pattern is the number n of blanks \s* keeps, the alternative g
\* of the optional group (1 "no.", 2 "no", 3 "#", 4 absent) and the first
\* index p of the last group; the matcher takes the first way that succeeds,
\* trying more blanks first, the alternatives in order, and a longer [:\s]*
\* first.
InvoiceIdCh == WordCh \cup {"-"}
InvoiceGroupLen(t, g, p1) ==
    CASE g = 1 -> IF HasLitI(t, p1, <<"n", "o", ".">>) THEN 3 ELSE -1
      [] g = 2 -> IF HasLitI(t, p1, <<"n", "o">>) THEN 2 ELSE -1
      [] g = 3 -> IF At(t, p1) = "#" THEN 1 ELSE -1
      [] OTHER -> 0
InvoiceWays(t, i) ==
    IF ~HasLitI(t, i, <<"i", "n", "v", "o", "i", "c", "e">>) THEN {}
    ELSE {w \in [n : 0..(RunEnd(t, i + 7, Space) - i - 6), g : 1..4,
                 p : (i + 7)..(Len(t) + 1)] :
            \E len \in {InvoiceGroupLen(t, w.g, i + 7 + w.n)} :
               /\ len >= 0
               /\ w.p >= i + 7 + w.n + len
               /\ w.p <= RunEnd(t, i + 7 + w.n + len, {":"} \cup Space) + 1
               /\ At(t, w.p) \in InvoiceIdCh}
InvoiceAt(t, i) == InvoiceWays(t, i) # {}
WayBefore(x, y) ==
    \/ x.n > y.n
    \/ x.n = y.n /\ x.g < y.g
    \/ x.n = y.n /\ x.g = y.g /\ x.p >= y.p
InvoiceStart(t, i) ==
    The({(CHOOSE x \in W : \A y \in W : WayBefore(x, y)).p : W \in {InvoiceWays(t, i)}})

\* INV[\w-]+ at position i (case sensitive)
InvAt(t, i) == HasLit(t, i, <<"I", "N", "V">>) /\ At(t, i + 3) \in InvoiceIdCh

agent_invoice_number(text) ==
    The({IF i # 0
         THEN The({AgentResult(SubSeq(text, g, RunEnd(text, g, InvoiceIdCh)), 90,
                               [source |-> "regex"])
                   : g \in {InvoiceStart(text, i)}})
         ELSE The({IF j # 0
                   THEN AgentResult(SubSeq(text, j, RunEnd(text, j + 3, InvoiceIdCh)), 50,
                                    [source |-> "inv"])
                   ELSE AgentResult(None, 0, [source |-> "none"])
                   : j \in {FirstPos(text, InvAt)}})
         : i \in {FirstPos(text, InvoiceAt)}})

\* int(s) of a digit string, and the zero-padded decimal of n
DigitSeq == <<"0", "1", "2", "3", "4", "5", "6", "7", "8", "9">>
RECURSIVE NumVal(_, _)
NumVal(s, k) ==
    IF k = 0 THEN 0
    ELSE NumVal(s, k - 1) * 10 + (CHOOSE d \in 0..9 : DigitSeq[d + 1] = s[k])
RECURSIVE Padded(_, _)
Padded(n, width) ==
    IF width = 0 THEN <<>>
    ELSE Padded(n \div 10, width - 1) \o <<DigitSeq[(n % 10) + 1]>>

\* dateparser.parse(raw, dayfirst=False).date().isoformat() for a match of
\* DATE_PAT, ValueError when dateutil raises.  dateutil reads a first
\* number that has more than two digits or exceeds 31 as the year, otherwise
\* the last one; of the other two the first is the month unless it exceeds
\* 12.  A two-digit year is taken in the century that puts it less than 50
\* years after the current year (here: 00-75 are 20xx).
ValueError == <<"ValueError">>
DaysIn(y, m) ==
    IF m \in {4, 6, 9, 11} THEN 30
    ELSE IF m # 2 THEN 31
    ELSE IF y % 4 = 0 /\ (y % 100 # 0 \/ y % 400 = 0) THEN 29 ELSE 28
\* the three numbers of the match, as digit strings
DateParts(raw) ==
    The({<<SubSeq(raw, 1, r[1]), SubSeq(raw, r[1] + 2, r[2]), SubSeq(raw, r[2] + 2, Len(raw))>>
         : r \in {DateRuns(raw, 1)}})
\* <<year, month, day>> as dateutil assigns them
DateYmd(s) ==
    The({The({<<IF \E k \in 1..3 : Len(s[k]) > 2 THEN ymd[1]
                ELSE IF ymd[1] >= 76 THEN 1900 + ymd[1] ELSE 2000 + ymd[1],
                ymd[2], ymd[3]>>
              : ymd \in {IF v[1] > 31 \/ Len(s[1]) > 2 THEN <<v[1], v[2], v[3]>>
                         ELSE IF v[1] > 12 THEN <<v[3], v[2], v[1]>>
                         ELSE <<v[3], v[1], v[2]>>}})
         : v \in {[k \in 1..3 |-> NumVal(s[k], Len(s[k]))]}})
DateutilParse(raw) ==
    The({IF /\ d[1] \in 1..9999
            /\ d[2] \in 1..12
            /\ d[3] >= 1
            /\ d[3] <= DaysIn(d[1], d[2])
         THEN Padded(d[1], 4) \o <<"-">> \o Padded(d[2], 2) \o <<"-">> \o Padded(d[3], 2)
         ELSE ValueError
         : d \in {DateYmd(DateParts(raw))}})

agent_invoice_date(text) ==
    The({IF i = 0 THEN AgentResult(None, 0, [source |-> "none"])
         ELSE The({The({IF dt # ValueError THEN AgentResult(dt, 80, [raw |-> raw])
                        ELSE AgentResult(raw, 50, [source |-> "unparsed"])
                        : dt \in {DateutilParse(raw)}})
                   : raw \in {SubSeq(text, i, DateEnd(text, i))}})
         : i \in {FirstPos(text, DateAt)}})

\* json.dumps of the row list and json.loads of it
JsonDumps(rows) == <<"json", rows>>
JsonLoads(doc) == doc[2]

\* a row whose total is the first money token: what the row layout excludes
LineItemRow_first_total(line) ==
    The({[qty |-> SubSeq(line, q, QtyEnd(line, q)),
          description |-> Strip(Take(line, 80)),
          coding |-> <<>>,
          unit_price |-> numbers[1],
          tax |-> IF Len(numbers) > 1 THEN numbers[2] ELSE <<>>,
          line_total |-> numbers[1]]
         : numbers \in {MoneyFindAll(line)}, q \in {FirstPos(line, QtyAt)}})
\* a line of agent_line_items has a row: a money token and a quantity
HasRow(line) == MoneyFindAll(line) # <<>> /\ FirstPos(line, QtyAt) # 0
\* the row of such a line
LineItemRow(line) ==
    The({[qty |-> SubSeq(line, q, QtyEnd(line, q)),
          description |-> Strip(Take(line, 80)),
          coding |-> <<>>,
          unit_price |-> numbers[1],
          tax |-> IF Len(numbers) > 1 THEN numbers[2] ELSE <<>>,
          line_total |-> numbers[Len(numbers)]]
         : numbers \in {MoneyFindAll(line)}, q \in {FirstPos(line, QtyAt)}})

\* a line-item agent that has no value and no confidence when it finds no
\* row, like the scalar agents: what the "attempted, found nothing" result
\* excludes
agent_line_items_none(text) ==
    The({IF lines # <<>>
         THEN AgentResult(JsonDumps([k \in 1..Len(lines) |-> LineItemRow(lines[k])]), 60,
                          [count |-> Len(lines)])
         ELSE AgentResult(None, 0, [source |-> "none"])
         : lines \in {SelectSeq(NonBlankLines(text), HasRow)}})

agent_line_items(text) ==
    The({IF lines # <<>>
         THEN AgentResult(JsonDumps([k \in 1..Len(lines) |-> LineItemRow(lines[k])]), 60,
                          [count |-> Len(lines)])
         ELSE AgentResult(JsonDumps(<<>>), 10, [source |-> "none"])
         : lines \in {SelectSeq(NonBlankLines(text), HasRow)}})

agent_tax(text, tax_label) ==
    The({IF m # None THEN AgentResult(m, 85, [source |-> "regex"])
         ELSE AgentResult(None, 0, [source |-> "none"])
         : m \in {LabelledAmount(text, tax_label)}})

agent_amount(text, label) ==
    The({IF m # None THEN AgentResult(m, 90, [source |-> "regex"])
         ELSE The({IF totals # <<>>
                   THEN AgentResult(totals[Len(totals)], 40, [source |-> "fallback"])
                   ELSE AgentResult(None, 0, [source |-> "none"])
                   : totals \in {MoneyFindAll(text)}})
         : m \in {LabelledAmount(text, label)}})

(***************************************************************************)
(* ocr.py: consensus selector and run_agents                               *)
(***************************************************************************)
\* a selector that gives a tie to OCR: what the tie-break rule excludes
pick_text_tie_to_ocr(native, ocr_value, native_conf, ocr_conf) ==
    IF native_conf > ocr_conf THEN <<native, native_conf, "native">>
    ELSE <<ocr_value, ocr_conf, "ocr">>

\* a selector that names a third source on a tie: what the two-valued
\* provenance excludes
pick_text_names_tie(native, ocr_value, native_conf, ocr_conf) ==
    IF native_conf > ocr_conf THEN <<native, native_conf, "native">>
    ELSE IF ocr_conf > native_conf THEN <<ocr_value, ocr_conf, "ocr">>
    ELSE <<native, native_conf, "tie">>

pick_text(native, ocr_value, native_conf, ocr_conf) ==
    IF native_conf > ocr_conf THEN <<native, native_conf, "native">>
    ELSE IF ocr_conf > native_conf THEN <<ocr_value, ocr_conf, "ocr">>
    ELSE <<native, native_conf, "native">>

\* "x or d" for an optional string
OrElse(x, d) == IF x = None \/ x = <<>> THEN d ELSE x

ScalarKeys == {"vendor", "hst", "address", "description", "invoice_number", "invoice_date"}
TaxKeys == {"hst_amount", "pst_amount", "gst_amount"}
AmountKeys == {"amount_before_hst", "amount_total"}
FieldKeys == ScalarKeys \cup {"line_items"} \cup TaxKeys \cup AmountKeys
TaxLabel(key) ==
    CASE key = "hst_amount" -> <<"H", "S", "T">>
      [] key = "pst_amount" -> <<"P", "S", "T">>
      [] key = "gst_amount" -> <<"G", "S", "T">>
AmountLabel(key) ==
    CASE key = "amount_before_hst" -> <<"S", "u", "b", "t", "o", "t", "a", "l">>
      [] key = "amount_total" -> <<"T", "o", "t", "a", "l">>

\* the agent of a field applied to a text
Agent(key, text) ==
    CASE key = "vendor" -> agent_vendor(text)
      [] key = "hst" -> agent_hst(text)
      [] key = "address" -> agent_address(text)
      [] key = "description" -> agent_description(text)
      [] key = "invoice_number" -> agent_invoice_number(text)
      [] key = "invoice_date" -> agent_invoice_date(text)
      [] key = "line_items" -> agent_line_items(text)
      [] key \in TaxKeys -> agent_tax(text, TaxLabel(key))
      [] key \in AmountKeys -> agent_amount(text, AmountLabel(key))

\* an OCR side that never runs the agent: what the OCR-wins rule excludes
OcrSide_skipped(key, ocr) ==
    IF key = "line_items" THEN AgentResult(JsonDumps(<<>>), 0, [source |-> "skip"])
    ELSE AgentResult(None, 0, [source |-> "skip"])

\* an OCR side whose synthesized result has full confidence: what the
\* zero-confidence placeholder excludes
OcrSide_full_confidence(key, ocr) ==
    IF ocr # <<>> THEN Agent(key, ocr)
    ELSE IF key = "line_items" THEN AgentResult(JsonDumps(<<>>), 100, [source |-> "skip"])
    ELSE AgentResult(None, 100, [source |-> "skip"])

\* the OCR-side result of a field: the agent's, or the synthesized one when
\* there is no OCR text
OcrSide(key, ocr) ==
    IF ocr # <<>> THEN Agent(key, ocr)
    ELSE IF key = "line_items" THEN AgentResult(JsonDumps(<<>>), 0, [source |-> "skip"])
    ELSE AgentResult(None, 0, [source |-> "skip"])

\* the selector's answer for one field.  The value of a line-item result is
\* a JSON document, never an empty string, so its "or" keeps it.
Picked(key, native_result, ocr_result) ==
    IF key = "line_items"
    THEN pick_text(native_result.value, ocr_result.value,
                   native_result.confidence, ocr_result.confidence)
    ELSE pick_text(OrElse(native_result.value, <<>>), OrElse(ocr_result.value, <<>>),
                   native_result.confidence, ocr_result.confidence)

\* an entry whose confidence adds the two candidates up: what the range of
\* confidences excludes
FieldEntry_summed(key, native_result, ocr_result, picked) ==
    [value |-> IF key = "line_items" THEN JsonLoads(picked[1]) ELSE OrElse(picked[1], None),
     confidence |-> native_result.confidence + ocr_result.confidence,
     meta |-> [picked |-> picked[3], native |-> native_result.meta, ocr |-> ocr_result.meta]]
\* an entry that always stores the native candidate's confidence: what the
\* agreement of the two confidence rules excludes
FieldEntry_native_confidence(key, native_result, ocr_result, picked) ==
    [value |-> IF key = "line_items" THEN JsonLoads(picked[1]) ELSE OrElse(picked[1], None),
     confidence |-> native_result.confidence,
     meta |-> [picked |-> picked[3], native |-> native_result.meta, ocr |-> ocr_result.meta]]

\* the entry run_agents stores for one field
FieldEntry(key, native_result, ocr_result, picked) ==
    IF key = "line_items"
    THEN [value |-> JsonLoads(picked[1]),
          confidence |-> Max(native_result.confidence, ocr_result.confidence),
          meta |-> [picked |-> picked[3]]]
    ELSE IF key \in ScalarKeys
    THEN [value |-> OrElse(picked[1], None),
          confidence |-> Max(native_result.confidence, ocr_result.confidence),
          meta |-> IF picked[1] # <<>>
                   THEN [picked |-> picked[3], native |-> native_result.meta,
                         ocr |-> ocr_result.meta, value |-> picked[1]]
                   ELSE [picked |-> picked[3], native |-> native_result.meta,
                         ocr |-> ocr_result.meta]]
    ELSE [value |-> OrElse(picked[1], None),
          confidence |-> picked[2],
          meta |-> [picked |-> picked[3]]]

FieldResult(key, native, ocr) ==
    The({The({FieldEntry(key, n, o, p) : p \in {Picked(key, n, o)}})
         : n \in {Agent(key, native)}, o \in {OcrSide(key, ocr)}})

(***************************************************************************)
(* duplicate.py: fingerprints                                              *)
(***************************************************************************)
\* hashlib.sha256(s.encode("utf-8")).hexdigest(): a digest names its input,
\* an empty input too; no two inputs share one.  It is no text and not None.
Sha256(s) == <<"sha256">> \o s

\* a normalization that keeps the letter case: what the case-insensitive
\* fingerprint excludes
normalize_text_case_kept(text) ==
    The({Join(SplitWs(t), <<" ">>) : t \in {OrElse(text, <<>>)}})

\* " ".join((text or "").lower().split())
normalize_text(text) ==
    The({Join(SplitWs(LowerStr(t)), <<" ">>) : t \in {OrElse(text, <<>>)}})

\* the length the content fingerprint needs to exceed
FpThreshold == 200

\* (meta.get(key) or "").strip().lower()
MetaField(meta, key) == The({LowerStr(Strip(v)) : v \in {OrElse(meta[key], <<>>)}})
IsTruthy(x) == x # None /\ x # <<>>

\* fingerprints with the threshold met at the threshold length: what the
\* threshold boundary excludes
compute_fingerprints_at_threshold(text, meta) ==
    <<IF Len(normalize_text(text)) >= FpThreshold THEN Sha256(normalize_text(text)) ELSE None,
      None>>
\* fingerprints whose metadata fields are not stripped: what the metadata
\* boundary excludes
compute_fingerprints_unstripped(text, meta) ==
    The({<<None, IF concat # <<>> THEN Sha256(concat) ELSE None>>
         : concat \in {Join(SelectSeq(<<OrElse(meta.vendor, <<>>),
                                        OrElse(meta.invoice_number, <<>>),
                                        OrElse(meta.amount_total, <<>>),
                                        OrElse(meta.invoice_date, <<>>)>>, IsTruthy),
                            <<"|">>)}})

\* compute_fingerprints(text, meta): <<fp_a, fp_b>>
compute_fingerprints(text, meta) ==
    The({<<IF Len(normalized) > FpThreshold THEN Sha256(normalized) ELSE None,
           IF concat # <<>> THEN Sha256(concat) ELSE None>>
         : normalized \in {normalize_text(text)},
           concat \in {Join(SelectSeq(<<MetaField(meta, "vendor"),
                                        MetaField(meta, "invoice_number"),
                                        MetaField(meta, "amount_total"),
                                        MetaField(meta, "invoice_date")>>, IsTruthy),
                            <<"|">>)}})

\* a query that joins its clauses with AND: what the OR of the fingerprints
\* excludes
find_duplicates_all_clauses(rows, fp_a, fp_b) ==
    IF ~IsTruthy(fp_a) /\ ~IsTruthy(fp_b) THEN [ids |-> {}, opened |-> FALSE]
    ELSE [ids |-> {id \in DOMAIN rows :
                     /\ IsTruthy(fp_a) => rows[id].fingerprint_a = fp_a
                     /\ IsTruthy(fp_b) => rows[id].fingerprint_b = fp_b},
          opened |-> TRUE]
\* a query that is always run and compares a null fingerprint as a value:
\* what the early return excludes
find_duplicates_always_queries(rows, fp_a, fp_b) ==
    [ids |-> {id \in DOMAIN rows :
                \/ rows[id].fingerprint_a = fp_a
                \/ rows[id].fingerprint_b = fp_b},
     opened |-> TRUE]

\* find_duplicates(fp_a, fp_b) on the table cheque_requests: [ids, opened].
\* A clause is built for a fingerprint that is truthy; without clauses the
\* function returns before db.conn() is entered.  A stored NULL equals no
\* parameter.
find_duplicates(rows, fp_a, fp_b) ==
    IF ~IsTruthy(fp_a) /\ ~IsTruthy(fp_b) THEN [ids |-> {}, opened |-> FALSE]
    ELSE [ids |-> {id \in DOMAIN rows :
                     \/ IsTruthy(fp_a) /\ rows[id].fingerprint_a # None
                                       /\ rows[id].fingerprint_a = fp_a
                     \/ IsTruthy(fp_b) /\ rows[id].fingerprint_b # None
                                       /\ rows[id].fingerprint_b = fp_b},
          opened |-> TRUE]

(***************************************************************************)
(* db.py, app.py: stages and the table cheque_requests                     *)
(***************************************************************************)
\* a Python int, and an instant of datetime.utcnow().isoformat(), in a place
\* that can also hold None
PyInt(n) == <<"int", n>>
Utc(n) == <<"utc", n>>

STAGES == <<"draft", "requested", "dept", "pm", "producer", "acctg", "studio", "completed">>
next_stage(current) ==
    IF \E idx \in 1..Len(STAGES) : STAGES[idx] = current
    THEN STAGES[Min((CHOOSE idx \in 1..Len(STAGES) : STAGES[idx] = current) + 1, Len(STAGES))]
    ELSE "requested"

\* set_status: the column that takes the timestamp of a status
status_field ==
    [requested |-> "requested_at", dept |-> "dept_approved_at", pm |-> "pm_approved_at",
     producer |-> "producer_approved_at", acctg |-> "acctg_approved_at",
     studio |-> "studio_approved_at", completed |-> "completed_at"]

\* record_cheque_request: the columns written from the payload
fields ==
    {"status", "requested_at", "dept_approved_at", "pm_approved_at", "producer_approved_at",
     "acctg_approved_at", "studio_approved_at", "completed_at", "fingerprint_a",
     "fingerprint_b"}
\* values = [payload.get(field) for field in fields]
PayloadValues(payload) ==
    [field \in fields |-> IF field \in DOMAIN payload THEN payload[field] ELSE None]
\* the UPDATE of record_cheque_request: every column of the row with this id
\* takes the payload's value; no row, no change
UpdateChequeRequest(rows, id, payload) ==
    IF id \in DOMAIN rows THEN [rows EXCEPT ![id] = PayloadValues(payload)] ELSE rows

\* get_cheque_request: the row in a list, the empty list when there is none
get_cheque_request(rows, id) == IF id \in DOMAIN rows THEN <<rows[id]>> ELSE <<>>

\* set_status(id, to_status) at instant at: [rows, events].  The status read
\* of a missing row is NULL; the UPDATE changes the row if there is one; the
\* approval event is inserted in either case.
set_status(rows, events, id, to_status, at) ==
    [rows |-> IF id \notin DOMAIN rows THEN rows
              ELSE IF to_status \in DOMAIN status_field
              THEN [rows EXCEPT ![id].status = to_status,
                                ![id][status_field[to_status]] = at]
              ELSE [rows EXCEPT ![id].status = to_status],
     events |-> Append(events,
                       [cheque_request_id |-> id,
                        from_status |-> IF id \in DOMAIN rows THEN rows[id].status ELSE "NULL",
                        to_status |-> to_status,
                        at |-> at])]

\* get_invoice_path: the invoice file of a record folder, "" without one
get_invoice_path(inv, id) == IF id \in DOMAIN inv THEN inv[id] ELSE ""

\* a recording that looks again before it writes and leaves the row alone
\* when another row holds one of its fingerprints: what the absence of
\* atomicity excludes
record_cheque_request_rechecked(rows, id, payload) ==
    IF id = None
    THEN [rows |-> rows, cheque_id |-> None, exception |-> <<"OperationalError">>]
    ELSE IF \E other \in DOMAIN rows \ {id[2]} :
               \/ IsTruthy(payload.fingerprint_a)
                  /\ rows[other].fingerprint_a = payload.fingerprint_a
               \/ IsTruthy(payload.fingerprint_b)
                  /\ rows[other].fingerprint_b = payload.fingerprint_b
    THEN [rows |-> rows, cheque_id |-> id, exception |-> None]
    ELSE [rows |-> UpdateChequeRequest(rows, id[2], payload), cheque_id |-> id,
          exception |-> None]

\* record_cheque_request(project_id, vendor_id, payload) with payload["id"]
\* = id: [rows, cheque_id, exception].  With an id the row is updated.
\* Without one the INSERT names 25 columns and has 24 placeholders for its 25
\* values, which sqlite3 refuses: OperationalError, nothing is written.
record_cheque_request(rows, id, payload) ==
    IF id # None
    THEN [rows |-> UpdateChequeRequest(rows, id[2], payload), cheque_id |-> id,
          exception |-> None]
    ELSE [rows |-> rows, cheque_id |-> None, exception |-> <<"OperationalError">>]

(***************************************************************************)
(* Documents                                                               *)
(***************************************************************************)
\* the invoice of the extraction scenario
T_Scenario ==
    <<"V", "e", "n", "d", "o", "r", ":", " ", "A", "c", "m", "e", " ", "C",
      "o", "r", "p", "\n", "I", "n", "v", "o", "i", "c", "e", " ", "#", "1",
      "2", "3", "4", "5", "\n", "S", "u", "b", "t", "o", "t", "a", "l", ":",
      " ", "5", "0", "0", ".", "0", "0", "\n", "H", "S", "T", " ", "6", "5",
      ".", "0", "0", "\n", "T", "o", "t", "a", "l", ":", " ", "5", "6", "5",
      ".", "0", "0">>
\* one line-item row
T_Widgets ==
    <<"2", " ", "W", "i", "d", "g", "e", "t", "s", " ", "1", "0", ".", "0",
      "0", " ", "1", ".", "3", "0", " ", "1", "1", ".", "3", "0">>
\* white space only
T_Blank ==
    <<" ", " ", "\n">>
\* a name and nothing else
T_Plain ==
    <<"A", "c", "m", "e">>
\* a generic invoice number, a date, an address, a total
T_Street ==
    <<"I", "N", "V", "-", "7", "7", " ", "d", "u", "e", " ", "2", "0", "2",
      "4", "-", "0", "1", "-", "1", "5", "\n", "1", "2", " ", "M", "a", "i",
      "n", " ", "S", "t", "r", "e", "e", "t", "\n", "T", "o", "t", "a", "l",
      " ", "$", "1", ",", "2", "3", "4", ".", "5", "0">>
\* a tax id, a description and two tax amounts
T_TaxId ==
    <<"T", "a", "x", " ", "I", "D", " ", "1", "2", "3", "4", "5", "6", "7",
      "8", "9", " ", "R", "T", "0", "0", "0", "1", "\n", "D", "e", "s", "c",
      "r", "i", "p", "t", "i", "o", "n", ":", " ", "p", "a", "p", "e", "r",
      "\n", "G", "S", "T", ":", " ", "5", ".", "0", "0", " ", "P", "S", "T",
      " ", "7", ".", "0", "0">>
\* a date dateutil rejects
T_BadDate ==
    <<"i", "n", "v", "o", "i", "c", "e", " ", "n", "o", ".", " ", "A", "-",
      "1", "\n", "1", "3", "/", "1", "3", "/", "2", "0", "2", "4">>
\* a vendor label with white space after it
T_NoName ==
    <<"V", "e", "n", "d", "o", "r", ":", " ", " ">>
T_Empty == <<>>
Corpus ==
    {T_Empty, T_Scenario, T_Widgets, T_Blank, T_Plain, T_Street, T_TaxId, T_BadDate, T_NoName}


\* invoice files: their names and what pdfminer reads from them.  Three hold
\* the same words, one character past the threshold, in different case and
\* spacing; one is the short scenario invoice.
LongWord(c) == [i \in 1..(FpThreshold + 1) |-> c]
FileText ==
    [plain |-> LongWord("a"),
     upper |-> LongWord("A"),
     padded |-> <<" ", "\n">> \o LongWord("A") \o <<" ", " ">>,
     short |-> T_Scenario]
FileNames == DOMAIN FileText

\* the four form fields that enter the metadata fingerprint
M_Empty == [vendor |-> <<>>, invoice_number |-> <<>>, amount_total |-> <<>>,
            invoice_date |-> <<>>]
M_Acme == [vendor |-> <<"A", "c", "m", "e", " ">>, invoice_number |-> <<"7">>,
           amount_total |-> <<>>, invoice_date |-> <<>>]
FormMetas == {M_Empty, M_Acme}

(***************************************************************************)
(* ocr.py: text acquisition and run_agents                                 *)
(***************************************************************************)
\* What the OCR service can answer with: an exception of requests.post, a
\* status other than 200, a body that is not JSON, JSON that is not an
\* object, an object whose ParsedResults is null, or parsed results.
Replies == {"ConnectionError", "Timeout", "status_500", "not_json", "not_object",
            "results_null", "results"}
Documents == [text : Corpus, readable : {TRUE}] \cup [text : {T_Empty}, readable : {FALSE}]
OcrServices ==
    [api_key : {None, <<>>}, reply : {"results"}, parsed : {<<>>}]
    \cup [api_key : {<<"k">>}, reply : Replies \ {"results"}, parsed : {<<>>}]
    \cup [api_key : {<<"k">>}, reply : {"results"}, parsed : {<<t>> : t \in Corpus}]
    \cup [api_key : {<<"k">>}, reply : {"results"}, parsed : {<<T_Plain, T_Empty, T_Widgets>>}]

\* [r["ParsedText"] for r in results if r.get("ParsedText")]
RECURSIVE ParsedTexts(_)
ParsedTexts(parsed) ==
    IF parsed = <<>> THEN <<>>
    ELSE IF parsed[1] = <<>> THEN ParsedTexts(Tail(parsed))
    ELSE <<parsed[1]>> \o ParsedTexts(Tail(parsed))

\* extract_pdf_text: the text of the file, "" on any exception
extract_pdf_text(doc) == IF doc.readable THEN doc.text ELSE <<>>

\* extract_ocr_space: [text, exception].  Only json.JSONDecodeError is
\* caught; an exception of requests.post, and the AttributeError of
\* payload.get on a body that is no object, leave the function.
extract_ocr_space(svc) ==
    IF svc.api_key \in {None, <<>>} THEN [text |-> <<>>, exception |-> None]
    ELSE IF svc.reply \in {"ConnectionError", "Timeout"}
         THEN [text |-> None, exception |-> <<svc.reply>>]
    ELSE IF svc.reply = "status_500" THEN [text |-> <<>>, exception |-> None]
    ELSE IF svc.reply = "not_json" THEN [text |-> <<>>, exception |-> None]
    ELSE IF svc.reply = "not_object"
         THEN [text |-> None, exception |-> <<"AttributeError">>]
    ELSE IF svc.reply = "results_null" THEN [text |-> <<>>, exception |-> None]
    ELSE [text |-> Join(ParsedTexts(svc.parsed), <<"\n">>), exception |-> None]

(***************************************************************************)
(* State                                                                   *)
(***************************************************************************)
VARIABLES
    \* run_agents(path): the file, the OCR service, and the call's progress
    document,       \* [text, readable]: what pdfminer finds in the file
    ocr_service,    \* [api_key, reply, parsed]: OCRSPACE_API_KEY and the reply
    ra_pc,          \* "extract_pdf_text", "extract_ocr_space", "agents", "returned", "raised"
    native_text,
    ocr_text,
    results,        \* the dictionary run_agents returns
    exception,      \* the exception that left run_agents, None when there is none
    \* one call of pick_text or compute_fingerprints
    call,           \* [fn, args]: the function and its arguments
    returned,       \* what the call returned, in a list; empty before the call
    \* data.db, the upload directory and the request handlers
    cheque_requests,    \* the rows of the table, by id
    approval_events,    \* the rows of the table, in insertion order
    exports,            \* the rows of the table, in insertion order
    uploads,            \* the temporary invoice files in uploads/
    invoices,           \* id -> the invoice file in uploads/<id>/, "" without one
    now,                \* the clock
    handler,            \* worker -> the locals of the request it serves
    served,             \* the number of requests taken so far
    processed           \* the /submit and /save requests that have ended, in order

agentVars == <<document, ocr_service, ra_pc, native_text, ocr_text, results, exception>>
callVars == <<call, returned>>
storeVars == <<cheque_requests, approval_events, exports, uploads, invoices, now>>
flowVars == <<storeVars, handler, served, processed>>
vars == <<agentVars, callVars, flowVars>>

\* the parts of the state a specification leaves alone
AgentsIdle ==
    /\ document = [text |-> <<>>, readable |-> TRUE]
    /\ ocr_service = [api_key |-> None, reply |-> "results", parsed |-> <<>>]
    /\ ra_pc = "idle"
    /\ native_text = None
    /\ ocr_text = None
    /\ results = None
    /\ exception = None
CallIdle ==
    /\ call = [fn |-> "none"]
    /\ returned = <<>>

(***************************************************************************)
(* Workers and requests                                                    *)
(***************************************************************************)
Workers == {"w1", "w2"}
\* the number of requests the workers take
MaxRequests == 2
Ids == {1, 2}

IdleHandler ==
    [pc |-> "idle", op |-> "", cheque_id |-> None, uploaded_invoice |-> "",
     fingerprint_a |-> None, fingerprint_b |-> None, found |-> {}, opened |-> FALSE,
     duplicates |-> {}, duplicate_warning |-> FALSE, existing |-> <<>>,
     current_status |-> "", new_status |-> "", seen |-> 0]

FlowIdle ==
    /\ cheque_requests = <<>>
    /\ approval_events = <<>>
    /\ exports = <<>>
    /\ uploads = {}
    /\ invoices = [id \in Ids |-> ""]
    /\ now = 0
    /\ handler = [w \in Workers |-> IdleHandler]
    /\ served = 0
    /\ processed = <<>>

(***************************************************************************)
(* run_agents                                                              *)
(***************************************************************************)
AgentsInit ==
    /\ document \in Documents
    /\ ocr_service \in OcrServices
    /\ ra_pc = "extract_pdf_text"
    /\ native_text = None
    /\ ocr_text = None
    /\ results = None
    /\ exception = None
    /\ CallIdle
    /\ FlowIdle

ExtractPdfText ==
    /\ ra_pc = "extract_pdf_text"
    /\ native_text' = extract_pdf_text(document)
    /\ ra_pc' = "extract_ocr_space"
    /\ UNCHANGED <<document, ocr_service, ocr_text, results, exception, callVars, flowVars>>

ExtractOcrSpace ==
    /\ ra_pc = "extract_ocr_space"
    /\ \E r \in {extract_ocr_space(ocr_service)} :
          /\ ocr_text' = r.text
          /\ exception' = r.exception
          /\ ra_pc' = IF r.exception = None THEN "agents" ELSE "raised"
    /\ UNCHANGED <<document, ocr_service, native_text, results, callVars, flowVars>>

RunFieldAgents ==
    /\ ra_pc = "agents"
    /\ results' = [key \in FieldKeys |-> FieldResult(key, native_text, ocr_text)]
    /\ ra_pc' = "returned"
    /\ UNCHANGED <<document, ocr_service, native_text, ocr_text, exception, callVars,
                   flowVars>>

NextAgents == ExtractPdfText \/ ExtractOcrSpace \/ RunFieldAgents
SpecAgents == AgentsInit /\ [][NextAgents]_vars

(***************************************************************************)
(* Properties of run_agents                                                *)
(***************************************************************************)
\* the picked source of a field of the returned dictionary
PickedSource(key) == results[key].meta.picked
Str_AcmeCorp == <<"A", "c", "m", "e", " ", "C", "o", "r", "p">>
Str_12345 == <<"1", "2", "3", "4", "5">>
Str_500 == <<"5", "0", "0", ".", "0", "0">>
Str_65 == <<"6", "5", ".", "0", "0">>
Str_565 == <<"5", "6", "5", ".", "0", "0">>

\* C1: for the scenario invoice as native text and empty OCR text, run_agents
\* returns vendor "Acme Corp" (0.9), invoice_number "12345" (0.9),
\* amount_before_hst "500.00", hst_amount "65.00" and amount_total "565.00",
\* each picked from "native".
C1_ScenarioResult ==
    (ra_pc = "returned" /\ native_text = T_Scenario /\ ocr_text = <<>>) =>
        /\ results.vendor.value = Str_AcmeCorp
        /\ results.vendor.confidence = 90
        /\ results.invoice_number.value = Str_12345
        /\ results.invoice_number.confidence = 90
        /\ results.amount_before_hst.value = Str_500
        /\ results.hst_amount.value = Str_65
        /\ results.amount_total.value = Str_565
        /\ \A key \in {"vendor", "invoice_number", "amount_before_hst", "hst_amount",
                       "amount_total"} : PickedSource(key) = "native"

\* the case C3 speaks of: run_agents has returned, the native text was empty
\* and the OCR text was not
OcrOnly == ra_pc = "returned" /\ native_text = <<>> /\ ocr_text # <<>>

\* C3 as stated: with empty native text and non-empty OCR text, every field
\* whose OCR-side result has confidence > 0 is picked from "ocr".
C3_OcrPickedWhenPositive ==
    OcrOnly =>
        \A key \in FieldKeys :
            Agent(key, ocr_text).confidence > 0 => PickedSource(key) = "ocr"

\* C3, amended: with empty native text and non-empty OCR text, every field
\* other than line_items whose OCR-side result has confidence > 0 is picked
\* from "ocr"; line_items is picked from "ocr" exactly when the OCR side's
\* confidence exceeds the native side's (rows were found), and from "native"
\* on the tie of the two row-less results.
C3_OcrPickedAmended ==
    OcrOnly =>
        /\ \A key \in FieldKeys \ {"line_items"} :
              Agent(key, ocr_text).confidence > 0 => PickedSource(key) = "ocr"
        /\ PickedSource("line_items") =
              IF agent_line_items(ocr_text).confidence > agent_line_items(native_text).confidence
              THEN "ocr" ELSE "native"
\* OCR text without rows: the vendor comes from OCR, the line items tie
C3_Witness ==
    /\ OcrOnly
    /\ ocr_text = T_Plain
    /\ PickedSource("vendor") = "ocr"
    /\ agent_line_items(ocr_text).confidence > 0
    /\ PickedSource("line_items") = "native"

\* C4: extract_ocr_space never raises; whatever the external call does, it
\* returns the empty string and run_agents completes.
C4_OcrNeverRaises ==
    /\ exception = None
    /\ ra_pc # "raised"
    /\ (ra_pc \in {"agents", "returned"} /\ ocr_service.reply # "results") => ocr_text = <<>>

(***************************************************************************)
(* pick_text and compute_fingerprints, one call at a time                  *)
(***************************************************************************)
\* confidences in hundredths, and values as run_agents passes them
Confidences == {0, 10, 40, 85, 90, 100}
Values == {<<>>, <<"a">>, <<"b">>}
PickTextCalls ==
    [fn : {"pick_text"}, native : Values, ocr_value : Values,
     native_conf : Confidences, ocr_conf : Confidences]

\* texts whose normalized form has a given length, in four spellings
Shapes == {"plain", "upper", "padded", "split"}
Shaped(shape, n) ==
    CASE shape = "plain" -> [i \in 1..n |-> "a"]
      [] shape = "upper" -> [i \in 1..n |-> "A"]
      [] shape = "padded" -> <<"\t", " ">> \o [i \in 1..n |-> "a"] \o <<" ", " ", " ", "\n">>
      [] shape = "split" -> <<"B", "c">> \o <<" ", "\n", " ">> \o [i \in 1..(n - 3) |-> "d"]
\* how far around the threshold the lengths go
FpMargin == 2
FpLengths == (FpThreshold - FpMargin)..(FpThreshold + FpMargin)
MetaValues == {None, <<>>, <<" ">>, <<"\t", " ">>, <<"A", " ">>}
FpMetas ==
    [vendor : MetaValues, invoice_number : MetaValues, amount_total : MetaValues,
     invoice_date : MetaValues]
FingerprintCalls ==
    [fn : {"compute_fingerprints"}, shape : Shapes, length : FpLengths, meta : {M_Empty, M_Acme}]
    \cup [fn : {"compute_fingerprints"}, shape : {"none"}, length : {0}, meta : FpMetas]
\* the text argument of a call: a shaped text, or None
CallText(c) == IF c.shape = "none" THEN None ELSE Shaped(c.shape, c.length)

CallsInit ==
    /\ call \in PickTextCalls \cup FingerprintCalls
    /\ returned = <<>>
    /\ AgentsIdle
    /\ FlowIdle

CallPickText ==
    /\ call.fn = "pick_text"
    /\ returned = <<>>
    /\ returned' = <<pick_text(call.native, call.ocr_value, call.native_conf, call.ocr_conf)>>
    /\ UNCHANGED <<call, agentVars, flowVars>>

CallComputeFingerprints ==
    /\ call.fn = "compute_fingerprints"
    /\ returned = <<>>
    /\ returned' = <<compute_fingerprints(CallText(call), call.meta)>>
    /\ UNCHANGED <<call, agentVars, flowVars>>

NextCalls == CallPickText \/ CallComputeFingerprints
SpecCalls == CallsInit /\ [][NextCalls]_vars

Picked_ == call.fn = "pick_text" /\ returned # <<>>
Fingerprinted == call.fn = "compute_fingerprints" /\ returned # <<>>

\* C2: for every pair of confidences pick_text returns the native value, the
\* native confidence and "native" when native >= OCR, and the OCR value, the
\* OCR confidence and "ocr" only when OCR > native; the 0/0 tie of two
\* results without a value gives the empty native-sourced result.
C2_TieBreak ==
    Picked_ =>
        /\ call.native_conf >= call.ocr_conf =>
              returned[1] = <<call.native, call.native_conf, "native">>
        /\ call.ocr_conf > call.native_conf =>
              returned[1] = <<call.ocr_value, call.ocr_conf, "ocr">>
        /\ returned[1][3] = "ocr" => call.ocr_conf > call.native_conf
        /\ (call.native_conf = 0 /\ call.ocr_conf = 0 /\ call.native = <<>>) =>
              returned[1] = <<<<>>, 0, "native">>
\* a tie above zero in which the two values differ
C2_Witness ==
    /\ Picked_
    /\ call.native_conf = call.ocr_conf
    /\ call.native_conf > 0
    /\ call.native # call.ocr_value
    /\ returned[1] = <<call.native, call.native_conf, "native">>

\* C7: the content fingerprint is non-null if and only if the normalized
\* text is longer than 200 characters: 200 gives null, 201 a digest.
C7_ContentThreshold ==
    (Fingerprinted /\ call.shape # "none") =>
        /\ Len(normalize_text(CallText(call))) = call.length
        /\ returned[1][1] # None <=> call.length > 200
        /\ call.length > 200 => returned[1][1] = Sha256(normalize_text(CallText(call)))
\* the two sides of the boundary, for a text longer than its normalized form
C7_Witness ==
    /\ Fingerprinted
    /\ call.shape = "padded"
    /\ call.length = 201
    /\ Len(CallText(call)) > 201
    /\ returned[1][1] # None

\* a metadata input that is missing, empty or white space only
IsBlank(v) == v = None \/ \A i \in 1..Len(v) : v[i] \in Space
\* C8: the metadata fingerprint is null if and only if all four metadata
\* inputs are missing, empty or white space only.
C8_MetadataBoundary ==
    Fingerprinted =>
        (returned[1][2] = None <=>
            \A key \in {"vendor", "invoice_number", "amount_total", "invoice_date"} :
                IsBlank(call.meta[key]))
\* blank in three different ways and missing, and null
C8_Witness ==
    /\ Fingerprinted
    /\ call.meta = [vendor |-> None, invoice_number |-> <<>>, amount_total |-> <<" ">>,
                    invoice_date |-> <<"\t", " ">>]
    /\ returned[1][2] = None

(***************************************************************************)
(* app.py: the handlers of /submit, /save and /review/<id>/sign            *)
(*                                                                         *)
(* data.db and uploads/ outlive the process, and init_db creates only the  *)
(* tables that are missing: the handlers start from the rows and files     *)
(* that are there.  Two workers serve requests; a step of a handler is one *)
(* database transaction with the local computation and the file operations *)
(* around it.                                                              *)
(***************************************************************************)
\* request.form: a field is a text, empty when nothing was entered; the
\* uploaded invoice is named by its file
FormIds == {<<>>, <<"1">>, <<"2">>}
SubmitForms ==
    [cheque_request_id : FormIds, uploaded_invoice : {"", "padded"}, meta : FormMetas]
SaveForms ==
    [cheque_request_id : FormIds, uploaded_invoice : {"", "padded"}, meta : {M_Empty}]

\* int(cheque_id) if cheque_id else None
FormId(form) ==
    IF form.cheque_request_id # <<>>
    THEN PyInt(NumVal(form.cheque_request_id, Len(form.cheque_request_id)))
    ELSE None

\* submit_request: the file the text is read from, "" when there is none
InvoiceFile(form, ups, inv) ==
    IF form.uploaded_invoice # ""
    THEN IF form.uploaded_invoice \in ups THEN form.uploaded_invoice ELSE ""
    ELSE IF form.cheque_request_id # <<>> THEN get_invoice_path(inv, FormId(form)[2])
    ELSE ""
\* extract_pdf_text(invoice_path), "" without a file
TextOf(file) == IF file = "" THEN <<>> ELSE FileText[file]
\* compute_fingerprints(text, meta) for the files and forms there are
Fingerprints ==
    [file \in FileNames \cup {""}, meta \in FormMetas |->
        compute_fingerprints(TextOf(file), meta)]

\* the rows and files the handlers may find
NoRow == [field \in fields |-> None]
DraftRow == [NoRow EXCEPT !.status = "draft"]
RequestedRow ==
    [NoRow EXCEPT !.status = "requested", !.requested_at = Utc(0),
                  !.fingerprint_a = Fingerprints["plain", M_Empty][1]]
StudioRow ==
    [NoRow EXCEPT !.status = "studio", !.requested_at = Utc(0), !.dept_approved_at = Utc(0),
                  !.pm_approved_at = Utc(0), !.producer_approved_at = Utc(0),
                  !.acctg_approved_at = Utc(0), !.studio_approved_at = Utc(0),
                  !.fingerprint_b = Fingerprints["", M_Acme][2]]
\* the approval events that brought a row to its status
EventsOf(id, status) ==
    [k \in 1..((CHOOSE idx \in 1..Len(STAGES) : STAGES[idx] = status) - 1) |->
        [cheque_request_id |-> id, from_status |-> STAGES[k], to_status |-> STAGES[k + 1],
         at |-> Utc(0)]]
\* the submissions that left RequestedRow and StudioRow as rows 1 and 2
EndedBefore ==
    <<[op |-> "submit", cheque_id |-> PyInt(1), fingerprint_a |-> RequestedRow.fingerprint_a,
       fingerprint_b |-> None, duplicates |-> {}, recorded |-> TRUE, seen |-> 0],
      [op |-> "submit", cheque_id |-> PyInt(2), fingerprint_a |-> None,
       fingerprint_b |-> StudioRow.fingerprint_b, duplicates |-> {}, recorded |-> TRUE,
       seen |-> 1]>>
\* an empty database; two drafts with their invoices; a requested row and a
\* row at the last approval, both submitted before
Stores ==
    {[rows |-> <<>>, events |-> <<>>, ended |-> <<>>, invoices |-> <<"", "">>,
      uploads |-> {"padded"}],
     [rows |-> <<DraftRow, DraftRow>>, events |-> <<>>, ended |-> <<>>,
      invoices |-> <<"plain", "upper">>, uploads |-> {"padded"}],
     [rows |-> <<RequestedRow, StudioRow>>,
      events |-> EventsOf(1, "requested") \o EventsOf(2, "studio"),
      ended |-> EndedBefore,
      invoices |-> <<"plain", "short">>, uploads |-> {"padded"}]}

FlowInit ==
    /\ \E store \in Stores :
          /\ cheque_requests = store.rows
          /\ approval_events = store.events
          /\ invoices = store.invoices
          /\ uploads = store.uploads
          /\ processed = store.ended
    /\ exports = <<>>
    /\ now = 1
    /\ handler = [w \in Workers |-> IdleHandler]
    /\ served = 0
    /\ AgentsIdle
    /\ CallIdle

\* handle_save: existing = get_cheque_request(cheque_id) if cheque_id else
\* None; current_status = existing["status"] if existing else "draft"
ReadExisting(h, rows) ==
    The({[h EXCEPT !.pc = "record_cheque_request",
                   !.existing = existing,
                   !.current_status = IF existing # <<>> THEN existing[1].status ELSE "draft"]
         : existing \in {IF h.cheque_id # None THEN get_cheque_request(rows, h.cheque_id[2])
                         ELSE <<>>}})

\* what is kept of a /submit or /save request that has ended
Ended(h, recorded) ==
    [op |-> h.op, cheque_id |-> h.cheque_id, fingerprint_a |-> h.fingerprint_a,
     fingerprint_b |-> h.fingerprint_b, duplicates |-> h.duplicates, recorded |-> recorded,
     seen |-> h.seen]

\* a filter that keeps the current request in the list: what the exclusion
\* of the own identifier excludes
ExcludeCurrent_kept(duplicates, cheque_id) == duplicates
\* submit_request: duplicates = [d for d in duplicates if d != current_id]
\* when the form carries an id
ExcludeCurrent(duplicates, cheque_id) ==
    IF cheque_id # None THEN duplicates \ {cheque_id[2]} ELSE duplicates

\* submit_request up to the call of handle_save: the text of the invoice,
\* the fingerprints, the duplicate check and the warning
SubmitRequest(w) ==
    /\ handler[w].pc = "idle"
    /\ served < MaxRequests
    /\ \E form \in SubmitForms :
       \E fp \in {Fingerprints[InvoiceFile(form, uploads, invoices), form.meta]} :
       \E r \in {find_duplicates(cheque_requests, fp[1], fp[2])} :
       \E duplicates \in {ExcludeCurrent(r.ids, FormId(form))} :
          handler' = [handler EXCEPT ![w] =
                        [IdleHandler EXCEPT !.pc = "handle_save",
                                            !.op = "submit",
                                            !.cheque_id = FormId(form),
                                            !.uploaded_invoice = form.uploaded_invoice,
                                            !.fingerprint_a = fp[1],
                                            !.fingerprint_b = fp[2],
                                            !.found = r.ids,
                                            !.opened = r.opened,
                                            !.duplicates = duplicates,
                                            !.duplicate_warning = (duplicates # {}),
                                            !.seen = Len(processed)]]
    /\ served' = served + 1
    /\ UNCHANGED <<storeVars, processed, agentVars, callVars>>

\* handle_save(submit=True, ...) up to record_cheque_request
HandleSave(w) ==
    /\ handler[w].pc = "handle_save"
    /\ handler' = [handler EXCEPT ![w] = ReadExisting(handler[w], cheque_requests)]
    /\ UNCHANGED <<storeVars, served, processed, agentVars, callVars>>

\* save_draft: handle_save(submit=False) up to record_cheque_request
SaveDraft(w) ==
    /\ handler[w].pc = "idle"
    /\ served < MaxRequests
    /\ \E form \in SaveForms :
          handler' = [handler EXCEPT ![w] =
                        ReadExisting([IdleHandler EXCEPT !.op = "save",
                                                         !.cheque_id = FormId(form),
                                                         !.uploaded_invoice = form.uploaded_invoice,
                                                         !.seen = Len(processed)],
                                     cheque_requests)]
    /\ served' = served + 1
    /\ UNCHANGED <<storeVars, processed, agentVars, callVars>>

\* handle_save: the payload and record_cheque_request.  The payload has the
\* status read before, the fingerprints given, and requested_at; the other
\* stage timestamps are not in it.
RecordChequeRequest(w) ==
    /\ handler[w].pc = "record_cheque_request"
    /\ \E h \in {handler[w]} :
       \E r \in {record_cheque_request(
                    cheque_requests, h.cheque_id,
                    [status |-> h.current_status,
                     fingerprint_a |-> h.fingerprint_a,
                     fingerprint_b |-> h.fingerprint_b,
                     requested_at |-> IF h.existing # <<>> THEN h.existing[1].requested_at
                                      ELSE IF h.op = "submit" THEN Utc(now)
                                      ELSE None])} :
          /\ cheque_requests' = r.rows
          /\ IF r.exception = None
             THEN /\ handler' = [handler EXCEPT ![w].pc = "store_form_payload"]
                  /\ UNCHANGED processed
             ELSE /\ handler' = [handler EXCEPT ![w] = IdleHandler]
                  /\ processed' = Append(processed, Ended(h, FALSE))
    /\ UNCHANGED <<approval_events, exports, uploads, invoices, now, served, agentVars,
                   callVars>>

\* handle_save after record_cheque_request: the form and the invoice go to
\* the record folder, and a submitted draft is set to "requested"
StoreFormPayload(w) ==
    /\ handler[w].pc = "store_form_payload"
    /\ \E h \in {handler[w]} :
       \E id \in {handler[w].cheque_id[2]} :
          /\ IF h.uploaded_invoice # "" /\ h.uploaded_invoice \in uploads
             THEN /\ invoices' = [invoices EXCEPT ![id] = h.uploaded_invoice]
                  /\ uploads' = uploads \ {h.uploaded_invoice}
             ELSE UNCHANGED <<invoices, uploads>>
          /\ IF h.op = "submit" /\ h.current_status = "draft"
             THEN \E r \in {set_status(cheque_requests, approval_events, id, "requested",
                                       Utc(now))} :
                     /\ cheque_requests' = r.rows
                     /\ approval_events' = r.events
                     /\ now' = now + 1
             ELSE UNCHANGED <<cheque_requests, approval_events, now>>
          /\ processed' = Append(processed, Ended(h, id \in DOMAIN cheque_requests))
    /\ handler' = [handler EXCEPT ![w] = IdleHandler]
    /\ UNCHANGED <<exports, served, agentVars, callVars>>

\* sign_request up to set_status: the row is read and the next stage chosen
SignRequest(w) ==
    /\ handler[w].pc = "idle"
    /\ served < MaxRequests
    /\ \E id \in Ids :
       \E cheque \in {get_cheque_request(cheque_requests, id)} :
          handler' = IF cheque = <<>> THEN handler
                     ELSE [handler EXCEPT ![w] =
                             [IdleHandler EXCEPT !.pc = "set_status",
                                                 !.op = "sign",
                                                 !.cheque_id = PyInt(id),
                                                 !.existing = cheque,
                                                 !.new_status = next_stage(cheque[1].status)]]
    /\ served' = served + 1
    /\ UNCHANGED <<storeVars, processed, agentVars, callVars>>

\* sign_request: set_status(cheque_id, new_status, ...)
SetStatus(w) ==
    /\ handler[w].pc = "set_status"
    /\ \E r \in {set_status(cheque_requests, approval_events, handler[w].cheque_id[2],
                            handler[w].new_status, Utc(now))} :
          /\ cheque_requests' = r.rows
          /\ approval_events' = r.events
    /\ now' = now + 1
    /\ handler' = [handler EXCEPT ![w] =
                     IF handler[w].new_status = "completed"
                     THEN [handler[w] EXCEPT !.pc = "record_export"]
                     ELSE IdleHandler]
    /\ UNCHANGED <<exports, uploads, invoices, served, processed, agentVars, callVars>>

\* sign_request at "completed": with an invoice in the record folder the
\* merged file is archived and the export recorded
RecordExport(w) ==
    /\ handler[w].pc = "record_export"
    /\ exports' = IF get_invoice_path(invoices, handler[w].cheque_id[2]) # ""
                  THEN Append(exports, [cheque_request_id |-> handler[w].cheque_id[2]])
                  ELSE exports
    /\ handler' = [handler EXCEPT ![w] = IdleHandler]
    /\ UNCHANGED <<cheque_requests, approval_events, uploads, invoices, now, served,
                   processed, agentVars, callVars>>

Next ==
    \E w \in Workers :
        \/ SubmitRequest(w)
        \/ HandleSave(w)
        \/ SaveDraft(w)
        \/ RecordChequeRequest(w)
        \/ StoreFormPayload(w)
        \/ SignRequest(w)
        \/ SetStatus(w)
        \/ RecordExport(w)
Spec == FlowInit /\ [][Next]_vars

(***************************************************************************)
(* Properties of the duplicate check                                       *)
(***************************************************************************)
\* worker w takes the step that ends submit_request's duplicate check
Checks(w) == handler[w].pc = "idle" /\ handler'[w].pc = "handle_save"
\* no submission for the same row ended after the i-th and up to the k-th
NotOverwritten(i, k) ==
    \A m \in (i + 1)..k :
        \/ processed[m].op # "submit"
        \/ processed[i].cheque_id = None
        \/ processed[m].cheque_id # processed[i].cheque_id

\* C5: after a submission A has been processed and recorded, a later
\* submission B with the same content fingerprint has A's identifier in its
\* duplicate list, and when A is then submitted again its list has B's
\* identifier.  For every ended submission b and every submission a that
\* ended before b's check with the same content fingerprint: if a was
\* recorded, or b's row was recorded with that fingerprint before a, then a
\* has an identifier and b's list contains it.
C5_MutualDuplicates ==
    \A j \in 1..Len(processed) :
        \A i \in 1..processed[j].seen :
            (/\ processed[i].op = "submit"
             /\ processed[j].op = "submit"
             /\ processed[i].fingerprint_a # None
             /\ processed[i].fingerprint_a = processed[j].fingerprint_a
             /\ processed[i].cheque_id # processed[j].cheque_id
             /\ NotOverwritten(i, processed[j].seen)
             /\ \/ processed[i].recorded
                \/ \E k \in 1..(i - 1) :
                      /\ processed[k].op = "submit"
                      /\ processed[k].recorded
                      /\ processed[k].cheque_id = processed[j].cheque_id
                      /\ processed[k].fingerprint_a = processed[j].fingerprint_a)
            => /\ processed[i].cheque_id # None
               /\ processed[i].cheque_id[2] \in processed[j].duplicates

\* C6: the duplicate check and the recording are not atomic.  A submission
\* that has passed its check is recorded with its fingerprints whatever has
\* been stored since: the record step does not look again.
C6_RecordedWithoutRecheck ==
    [][\A w \in Workers :
          (/\ handler[w].pc = "record_cheque_request"
           /\ handler[w].op = "submit"
           /\ handler[w].cheque_id # None
           /\ handler[w].cheque_id[2] \in DOMAIN cheque_requests
           /\ handler'[w].pc = "store_form_payload")
          => /\ cheque_requests'[handler[w].cheque_id[2]].fingerprint_a
                  = handler[w].fingerprint_a
             /\ cheque_requests'[handler[w].cheque_id[2]].fingerprint_b
                  = handler[w].fingerprint_b]_vars
\* the interleaving: two submissions for different rows with one content
\* fingerprint, the later one checked before the earlier one had ended, both
\* given an empty duplicate list, both recorded
C6_Witness ==
    \E i, j \in 1..Len(processed) :
        /\ i < j
        /\ processed[j].seen < i
        /\ processed[i].op = "submit" /\ processed[j].op = "submit"
        /\ processed[i].recorded /\ processed[j].recorded
        /\ processed[i].cheque_id # processed[j].cheque_id
        /\ processed[i].fingerprint_a # None
        /\ processed[i].fingerprint_a = processed[j].fingerprint_a
        /\ processed[i].duplicates = {} /\ processed[j].duplicates = {}
        /\ cheque_requests[processed[i].cheque_id[2]].fingerprint_a
              = processed[i].fingerprint_a
        /\ cheque_requests[processed[j].cheque_id[2]].fingerprint_a
              = processed[i].fingerprint_a

\* C9: for a fingerprint pair with a non-null member find_duplicates returns
\* exactly the ids of the rows whose content fingerprint equals the given
\* non-null content fingerprint or whose metadata fingerprint equals the
\* given non-null metadata fingerprint; a null member matches no row.
C9_FindDuplicatesExact ==
    [][\A w \in Workers :
          (/\ Checks(w)
           /\ handler'[w].fingerprint_a # None \/ handler'[w].fingerprint_b # None)
          => handler'[w].found =
                {id \in DOMAIN cheque_requests :
                    \/ /\ handler'[w].fingerprint_a # None
                       /\ cheque_requests[id].fingerprint_a = handler'[w].fingerprint_a
                    \/ /\ handler'[w].fingerprint_b # None
                       /\ cheque_requests[id].fingerprint_b = handler'[w].fingerprint_b}]_vars
\* a check with a content fingerprint only: row 1 matches, row 2 with its
\* null fingerprints does not
C9_Witness ==
    \E w \in Workers :
        /\ handler[w].pc = "handle_save"
        /\ handler[w].fingerprint_a # None
        /\ handler[w].fingerprint_b = None
        /\ handler[w].found = {1}
        /\ Len(cheque_requests) = 2
        /\ cheque_requests[2].fingerprint_a = None
        /\ cheque_requests[2].fingerprint_b = None

\* C10: with both fingerprints null find_duplicates returns the empty result
\* without opening a connection; no warning is produced and the store is as
\* it was.
C10_NoQueryWhenBothNull ==
    [][\A w \in Workers :
          (/\ Checks(w)
           /\ handler'[w].fingerprint_a = None
           /\ handler'[w].fingerprint_b = None)
          => /\ handler'[w].found = {}
             /\ ~handler'[w].opened
             /\ handler'[w].duplicates = {}
             /\ ~handler'[w].duplicate_warning
             /\ UNCHANGED storeVars]_vars
\* a check without fingerprints on a table whose rows have none either
C10_Witness ==
    \E w \in Workers :
        /\ handler[w].pc = "handle_save"
        /\ handler[w].fingerprint_a = None
        /\ handler[w].fingerprint_b = None
        /\ handler[w].found = {}
        /\ ~handler[w].opened
        /\ Len(cheque_requests) = 2
        /\ cheque_requests[1].fingerprint_a = None
        /\ cheque_requests[1].fingerprint_b = None

\* C11: when an existing request X is submitted again, the duplicate list
\* the warning is made from does not contain X: it is what find_duplicates
\* returned without X, and the warning is raised exactly when that is not
\* empty.
C11_SelfExcluded ==
    [][\A w \in Workers :
          (Checks(w) /\ handler'[w].cheque_id # None)
          => /\ handler'[w].cheque_id[2] \notin handler'[w].duplicates
             /\ handler'[w].duplicates = handler'[w].found \ {handler'[w].cheque_id[2]}
             /\ handler'[w].duplicate_warning = (handler'[w].duplicates # {})]_vars
\* row 1 submitted again with its recorded invoice: the query returns row 1
\* for its own stored fingerprint, and the list is empty
C11_Witness ==
    \E w \in Workers :
        /\ handler[w].pc = "handle_save"
        /\ handler[w].cheque_id = PyInt(1)
        /\ 1 \in DOMAIN cheque_requests
        /\ cheque_requests[1].fingerprint_a # None
        /\ cheque_requests[1].fingerprint_a = handler[w].fingerprint_a
        /\ 1 \in handler[w].found
        /\ handler[w].duplicates = {}
        /\ ~handler[w].duplicate_warning

(***************************************************************************)
(* Properties of the consensus selector in run_agents                      *)
(***************************************************************************)
\* run_agents has returned and there was no OCR text
NoOcr == ra_pc = "returned" /\ ocr_text = <<>>
\* the value of the native agent of a field, line items as rows
NativeValue(key) ==
    IF key = "line_items" THEN JsonLoads(Agent(key, native_text).value)
    ELSE Agent(key, native_text).value

\* C12 as stated: without OCR text every field of the result set is picked
\* from "native" and has the native agent's value.
C12_NativeWhenNoOcr ==
    NoOcr =>
        \A key \in FieldKeys :
            /\ PickedSource(key) = "native"
            /\ results[key].value = NativeValue(key)

\* C12, amended: without OCR text the OCR side of every scalar field is the
\* synthesized "skip" result, every field is picked from "native" with the
\* native agent's confidence, and its value is the native agent's value,
\* except that an empty string is reported as null.
C12_NativeWhenNoOcrAmended ==
    NoOcr =>
        \A key \in FieldKeys :
            /\ PickedSource(key) = "native"
            /\ results[key].confidence = Agent(key, native_text).confidence
            /\ key \in ScalarKeys => results[key].meta.ocr = [source |-> "skip"]
            /\ results[key].value =
                  IF key # "line_items" /\ NativeValue(key) = <<>> THEN None
                  ELSE NativeValue(key)
\* the vendor label without a name: the agent's value is the empty string
\* with confidence 0.9, the result's value is null
C12_Witness ==
    /\ NoOcr
    /\ native_text = T_NoName
    /\ agent_vendor(native_text).value = <<>>
    /\ agent_vendor(native_text).confidence = 90
    /\ results.vendor.value = None
    /\ PickedSource("vendor") = "native"

\* C13: every confidence of a field agent on the native or the OCR text, and
\* every confidence run_agents reports, lies in [0, 1] (0..100 hundredths).
C13_ConfidenceRange ==
    /\ ra_pc \in {"agents", "returned"} =>
          \A key \in FieldKeys :
              /\ Agent(key, native_text).confidence \in 0..100
              /\ Agent(key, ocr_text).confidence \in 0..100
              /\ OcrSide(key, ocr_text).confidence \in 0..100
    /\ ra_pc = "returned" =>
          \A key \in FieldKeys : results[key].confidence \in 0..100
\* the scenario invoice on both sides: both candidates of the vendor have
\* confidence 0.9, and so has the result; the PST amount has 0
C13_Witness ==
    /\ ra_pc = "returned"
    /\ native_text = T_Scenario
    /\ ocr_text = T_Scenario
    /\ agent_vendor(native_text).confidence = 90
    /\ results.vendor.confidence = 90
    /\ results.pst_amount.confidence = 0

\* C14: every field result run_agents returns names one picked source, and
\* it is "native" or "ocr".
C14_OnePickedSource ==
    ra_pc = "returned" =>
        /\ DOMAIN results = FieldKeys
        /\ \A key \in FieldKeys : PickedSource(key) \in {"native", "ocr"}
\* a result set with a field from each source and a tie of two equal
\* confidences
C14_Witness ==
    /\ ra_pc = "returned"
    /\ \E k1, k2, k3 \in FieldKeys :
          /\ PickedSource(k1) = "native"
          /\ Agent(k1, native_text).confidence > OcrSide(k1, ocr_text).confidence
          /\ PickedSource(k2) = "ocr"
          /\ PickedSource(k3) = "native"
          /\ Agent(k3, native_text).confidence = OcrSide(k3, ocr_text).confidence

\* C15: for every field the stored confidence is the confidence of the
\* candidate of the picked source, and it is the greater of the two
\* candidates' confidences: the two rules of the code agree.
C15_StoredConfidenceOfPicked ==
    ra_pc = "returned" =>
        \A key \in FieldKeys :
            /\ results[key].confidence =
                  IF PickedSource(key) = "native" THEN Agent(key, native_text).confidence
                  ELSE OcrSide(key, ocr_text).confidence
            /\ results[key].confidence =
                  Max(Agent(key, native_text).confidence, OcrSide(key, ocr_text).confidence)
\* both rules at work on a pick from OCR: the vendor (max rule) and the total
\* (selector's confidence), each 0.9 from OCR over 0.4 from the native text
C15_Witness ==
    /\ ra_pc = "returned"
    /\ native_text = T_Widgets
    /\ ocr_text = T_Scenario
    /\ PickedSource("vendor") = "ocr"
    /\ agent_vendor(native_text).confidence = 40
    /\ results.vendor.confidence = 90
    /\ PickedSource("amount_total") = "ocr"
    /\ agent_amount(native_text, AmountLabel("amount_total")).confidence = 40
    /\ results.amount_total.confidence = 90

(***************************************************************************)
(* Properties of the fingerprints as functions                             *)
(***************************************************************************)
\* a character in the other letter case, or another kind of white space
SwapCh(c) ==
    IF c \in Space THEN (IF c = " " THEN "\n" ELSE " ")
    ELSE IF \E k \in 1..Len(LowerSeq) : LowerSeq[k] = c
    THEN UpperSeq[CHOOSE k \in 1..Len(LowerSeq) : LowerSeq[k] = c]
    ELSE IF \E k \in 1..Len(UpperSeq) : UpperSeq[k] = c
    THEN LowerSeq[CHOOSE k \in 1..Len(UpperSeq) : UpperSeq[k] = c]
    ELSE c
\* a text that differs from t in letter case and in white space only: every
\* letter in the other case, every white space character of another kind,
\* the first run one longer, white space put around
Respelled(t) ==
    The({The({<<"\t">> \o SubSeq(s, 1, k) \o (IF k > 0 THEN <<" ">> ELSE <<>>)
                \o SubSeq(s, k + 1, Len(s)) \o <<" ", "\n">>
              : k \in {IF \E i \in 1..Len(s) : s[i] \in Space
                       THEN CHOOSE i \in 1..Len(s) : s[i] \in Space ELSE 0}})
         : s \in {[i \in 1..Len(t) |-> SwapCh(t[i])]}})
\* the metadata with every given value respelled
RespelledMeta(meta) ==
    [key \in DOMAIN meta |-> IF meta[key] = None THEN None ELSE Respelled(meta[key])]

\* C16: compute_fingerprints depends on its normalized inputs only.  The
\* same call gives the same pair; a text that differs in letter case and
\* white space only gives the same content fingerprint, metadata that differ
\* in case and surrounding white space only give the same metadata
\* fingerprint; texts of one length in the spellings "plain", "upper" and
\* "padded" share their fingerprint; normalizing a normalized text changes
\* nothing.
C16_NormalizedInputsOnly ==
    Fingerprinted =>
        /\ returned[1] = compute_fingerprints(CallText(call), call.meta)
        /\ returned[1][2] = compute_fingerprints(CallText(call), RespelledMeta(call.meta))[2]
        /\ normalize_text(normalize_text(CallText(call))) = normalize_text(CallText(call))
        /\ call.shape # "none" =>
              /\ Respelled(CallText(call)) # CallText(call)
              /\ returned[1][1] = compute_fingerprints(Respelled(CallText(call)), call.meta)[1]
              /\ normalize_text(Respelled(CallText(call))) = normalize_text(CallText(call))
        /\ call.shape \in {"plain", "upper", "padded"} =>
              \A shape \in {"plain", "upper", "padded"} :
                  returned[1][1] = compute_fingerprints(Shaped(shape, call.length), call.meta)[1]
\* a text of two words past the threshold and the form with a vendor and an
\* invoice number: both fingerprints are digests, and the respelled inputs
\* have them too
C16_Witness ==
    /\ Fingerprinted
    /\ call.shape = "split"
    /\ call.length = FpThreshold + 1
    /\ call.meta = M_Acme
    /\ returned[1][1] # None
    /\ returned[1][2] # None
    /\ RespelledMeta(call.meta) # call.meta
    /\ returned[1] = compute_fingerprints(Respelled(CallText(call)), RespelledMeta(call.meta))

(***************************************************************************)
(* Properties of agent_line_items                                          *)
(***************************************************************************)
\* the texts the field agents have been given
AgentTexts ==
    IF ra_pc \in {"agents", "returned"} THEN {native_text} \cup ({ocr_text} \ {<<>>}) ELSE {}
\* the rows agent_line_items finds in a text
RowsOf(text) == JsonLoads(agent_line_items(text).value)
\* the lines of a text with a money token and a numeric token
Qualifying(text) ==
    SelectSeq(SplitLines(text),
              LAMBDA line : /\ \E i \in 1..Len(line) : MoneyAt(line, i)
                            /\ \E i \in 1..Len(line) : QtyAt(line, i))

\* C17: every qualifying line gives a row, in order, whose unit_price is the
\* line's first money token, whose tax is the second one or empty, whose
\* line_total is the last one (the unit_price when there is only one), whose
\* coding is empty and whose qty is the first numeric token; the line
\* "2 Widgets 10.00 1.30 11.30" gives qty "2", unit_price "10.00", tax
\* "1.30", line_total "11.30".
C17_LineItemRows ==
    /\ \A text \in AgentTexts :
          /\ Len(RowsOf(text)) = Len(Qualifying(text))
          /\ \A k \in 1..Len(RowsOf(text)) :
                \E tokens \in {MoneyFindAll(Qualifying(text)[k])} :
                \E row \in {RowsOf(text)[k]} :
                   /\ row.unit_price = tokens[1]
                   /\ row.tax = IF Len(tokens) >= 2 THEN tokens[2] ELSE <<>>
                   /\ row.line_total = tokens[Len(tokens)]
                   /\ Len(tokens) = 1 => row.line_total = row.unit_price
                   /\ row.coding = <<>>
                   /\ row.qty = SubSeq(Qualifying(text)[k],
                                       Least({i \in 1..Len(Qualifying(text)[k]) :
                                                 QtyAt(Qualifying(text)[k], i)}),
                                       QtyEnd(Qualifying(text)[k],
                                              Least({i \in 1..Len(Qualifying(text)[k]) :
                                                        QtyAt(Qualifying(text)[k], i)})))
    /\ T_Widgets \in AgentTexts =>
          /\ Len(RowsOf(T_Widgets)) = 1
          /\ RowsOf(T_Widgets)[1].qty = <<"2">>
          /\ RowsOf(T_Widgets)[1].unit_price = <<"1", "0", ".", "0", "0">>
          /\ RowsOf(T_Widgets)[1].tax = <<"1", ".", "3", "0">>
          /\ RowsOf(T_Widgets)[1].line_total = <<"1", "1", ".", "3", "0">>
\* run_agents returns the row of the scenario line, and a text with a line of
\* two money tokens and a text with lines of one have been parsed as well
C17_Witness ==
    /\ ra_pc = "returned"
    /\ native_text = T_Widgets
    /\ ocr_text = T_TaxId
    /\ PickedSource("line_items") = "native"
    /\ Len(results.line_items.value) = 1
    /\ results.line_items.value[1].qty = <<"2">>
    /\ results.line_items.value[1].line_total = <<"1", "1", ".", "3", "0">>
    /\ Len(RowsOf(ocr_text)) = 1
    /\ RowsOf(ocr_text)[1].tax = <<"7", ".", "0", "0">>
    /\ RowsOf(ocr_text)[1].line_total = <<"7", ".", "0", "0">>

\* C18: agent_line_items returns confidence 0.6 and a non-empty row sequence
\* when at least one line qualifies, confidence 0.1 and the empty row
\* sequence when none does, the empty text included; its value is never
\* null.
C18_LineItemsConfidence ==
    /\ \A text \in AgentTexts \cup {<<>>} :
          /\ agent_line_items(text).value # None
          /\ IF Qualifying(text) # <<>>
             THEN agent_line_items(text).confidence = 60 /\ RowsOf(text) # <<>>
             ELSE agent_line_items(text).confidence = 10 /\ RowsOf(text) = <<>>
    /\ ra_pc = "returned" =>
          /\ results.line_items.value \in {RowsOf(native_text), RowsOf(ocr_text)}
          /\ results.line_items.confidence = IF results.line_items.value # <<>> THEN 60 ELSE 10
\* no native text and an OCR text with a row: 0.1 on one side, 0.6 on the
\* other
C18_Witness ==
    /\ ra_pc = "returned"
    /\ native_text = T_Empty
    /\ ocr_text = T_Widgets
    /\ agent_line_items(native_text).confidence = 10
    /\ RowsOf(native_text) = <<>>
    /\ agent_line_items(ocr_text).confidence = 60
    /\ results.line_items.confidence = 60
    /\ Len(results.line_items.value) = 1

(***************************************************************************)
(* Properties of saving a submission                                       *)
(***************************************************************************)
\* C19: the duplicate check is advisory.  A submission whose check reported
\* other identifiers is still saved with its fingerprints: its record step
\* succeeds and leaves a row with its identifier and its fingerprints; and
\* if the request was a draft, the step that ends it leaves the row
\* "requested".
C19_AdvisoryOnly ==
    [][\A w \in Workers :
          (handler[w].op = "submit" /\ handler[w].duplicates # {}) =>
             /\ (handler[w].pc = "record_cheque_request" /\ handler'[w] # handler[w]) =>
                   /\ handler'[w].pc = "store_form_payload"
                   /\ \E id \in DOMAIN cheque_requests' :
                         /\ handler'[w].cheque_id = PyInt(id)
                         /\ cheque_requests'[id].fingerprint_a = handler[w].fingerprint_a
                         /\ cheque_requests'[id].fingerprint_b = handler[w].fingerprint_b
             /\ (/\ handler[w].pc = "store_form_payload"
                 /\ handler[w].current_status = "draft"
                 /\ handler'[w].pc = "idle") =>
                   \E id \in DOMAIN cheque_requests' :
                      /\ handler[w].cheque_id = PyInt(id)
                      /\ cheque_requests'[id].status = "requested"]_vars

\* C20: saving or submitting a form without a request identifier inserts a
\* new row with the given status and fingerprints, and its fresh identifier
\* is the one the handler goes on with.
C20_InsertsNewRow ==
    [][\A w \in Workers :
          (/\ handler[w].pc = "record_cheque_request"
           /\ handler[w].cheque_id = None
           /\ handler'[w] # handler[w])
          => /\ Len(cheque_requests') = Len(cheque_requests) + 1
             /\ SubSeq(cheque_requests', 1, Len(cheque_requests)) = cheque_requests
             /\ cheque_requests'[Len(cheque_requests')].status = handler[w].current_status
             /\ cheque_requests'[Len(cheque_requests')].fingerprint_a = handler[w].fingerprint_a
             /\ cheque_requests'[Len(cheque_requests')].fingerprint_b = handler[w].fingerprint_b
             /\ handler'[w].pc = "store_form_payload"
             /\ handler'[w].cheque_id = PyInt(Len(cheque_requests'))]_vars

(***************************************************************************)
(* Properties of the stored request under saves, submits and signs         *)
(***************************************************************************)
\* worker w takes a step of a request of kind op at position pc
Acts(w, op, pc) == handler[w].op = op /\ handler[w].pc = pc /\ handler'[w] # handler[w]
\* the place of a status in the stage order
StageIndex(status) == CHOOSE idx \in 1..Len(STAGES) : STAGES[idx] = status
\* the columns set_status stamps for the approval stages
ApprovalStamps ==
    {"dept_approved_at", "pm_approved_at", "producer_approved_at", "acctg_approved_at",
     "studio_approved_at", "completed_at"}

\* C21: a request stored with a non-null fingerprint stays findable by
\* find_duplicates under that fingerprint through every draft save and every
\* sign; only the record step of a submit of that request replaces a stored
\* fingerprint.
C21_FingerprintsKept ==
    [][\A id \in DOMAIN cheque_requests :
          /\ (/\ cheque_requests[id].fingerprint_a # None
              /\ ~ \E w \in Workers : /\ Acts(w, "submit", "record_cheque_request")
                                      /\ handler[w].cheque_id = PyInt(id))
             => /\ cheque_requests'[id].fingerprint_a = cheque_requests[id].fingerprint_a
                /\ id \in find_duplicates(cheque_requests',
                                          cheque_requests[id].fingerprint_a, None).ids
          /\ (/\ cheque_requests[id].fingerprint_b # None
              /\ ~ \E w \in Workers : /\ Acts(w, "submit", "record_cheque_request")
                                      /\ handler[w].cheque_id = PyInt(id))
             => /\ cheque_requests'[id].fingerprint_b = cheque_requests[id].fingerprint_b
                /\ id \in find_duplicates(cheque_requests', None,
                                          cheque_requests[id].fingerprint_b).ids]_vars

\* C22: an approval timestamp recorded for a request is left as it is by
\* every step of a save or a submit of that request.
C22_StampsKept ==
    [][\A id \in DOMAIN cheque_requests :
       \A w \in Workers :
          (/\ handler[w].op \in {"save", "submit"}
           /\ handler[w].cheque_id = PyInt(id)
           /\ handler'[w] # handler[w])
          => \A stamp \in ApprovalStamps :
                cheque_requests[id][stamp] # None
                => cheque_requests'[id][stamp] = cheque_requests[id][stamp]]_vars

\* C23: whatever the interleaving of saves, submits and signs, the status of
\* a request never moves to an earlier stage.
C23_StatusNeverBack ==
    [][\A id \in DOMAIN cheque_requests :
          StageIndex(cheque_requests'[id].status) >= StageIndex(cheque_requests[id].status)]_vars

\* C24: each sign sets the status of its request to the immediate successor,
\* in the stage order, of the status the request had: no stage is skipped
\* and none is repeated except "completed", which stays.
C24_SignAdvancesOneStage ==
    [][\A w \in Workers :
          Acts(w, "sign", "set_status")
          => \E id \in DOMAIN cheque_requests :
                /\ handler[w].cheque_id = PyInt(id)
                /\ cheque_requests'[id].status =
                      STAGES[Min(StageIndex(cheque_requests[id].status) + 1, Len(STAGES))]]_vars

\* the approval events of a request, in the order of their insertion
EventsFor(id) == SelectSeq(approval_events, LAMBDA e : e.cheque_request_id = id)

\* C25: for a request with approval events, the to_status of the most recent
\* one is the status of the request; and the from_status of an event is the
\* status the request had just before the event's change.
C25_EventsMatchStatus ==
    /\ \A id \in DOMAIN cheque_requests :
          EventsFor(id) # <<>>
          => EventsFor(id)[Len(EventsFor(id))].to_status = cheque_requests[id].status
    /\ \A id \in DOMAIN cheque_requests :
       \A k \in 2..Len(EventsFor(id)) :
          EventsFor(id)[k].from_status = EventsFor(id)[k - 1].to_status

\* the export records of a request
ExportsFor(id) == {k \in DOMAIN exports : exports[k].cheque_request_id = id}

\* C26: a request has at most one export record.
C26_OneExport == \A id \in DOMAIN cheque_requests : Cardinality(ExportsFor(id)) <= 1

\* the metadata tuple after normalization: each field stripped and lowercased,
\* None as the empty string
NormalizedMeta(meta) ==
    <<MetaField(meta, "vendor"), MetaField(meta, "invoice_number"),
      MetaField(meta, "amount_total"), MetaField(meta, "invoice_date")>>

\* C27: metadata whose normalized tuple differs from the one of the call gets
\* a different metadata fingerprint (the metadata fingerprint is computed
\* from the metadata alone, so the other call is made without a text).
C27_DistinctMetaFingerprints ==
    Fingerprinted
    => \A other \in FpMetas :
          NormalizedMeta(other) # NormalizedMeta(call.meta)
          => compute_fingerprints(None, other)[2] # returned[1][2]

=============================================================================
